---- MODULE Spec2Model ----
(***************************************************************************)
(* State-machine model of ph_unfolder/phonon/band_structure.py:            *)
(* the construction of a BandStructure (__init__, _set_band,               *)
(* _solve_dm_on_path, _set_initial_point, _shift_point) and its two        *)
(* exporters (write_hdf5, write_yaml).                                     *)
(*                                                                         *)
(* The object's attributes are the function `self` from attribute names    *)
(* to values: an attribute exists exactly when its name is in DOMAIN self, *)
(* so reading an attribute that no code path has assigned is visible as    *)
(* an AttributeError.  Python's None is the empty set and a present value  *)
(* v is {v} for the attributes that are None at some time.                 *)
(*                                                                         *)
(* q-points and lattice vectors have integer components, chosen so that    *)
(* every norm the walk takes is an integer: distances are then exact.      *)
(***************************************************************************)
EXTENDS Integers, Sequences, FiniteSets, TLC

\* Largest total number of q-points over all the paths of one construction
\* (an empty path counts for one).
MaxPoints == 4

\* Stand-in for the unit conversion factor (the default of `factor`).
factor == 2

-----------------------------------------------------------------------------
(* Python values *)

None == {}
Some(v) == {v}
Get(o) == CHOOSE v \in o : TRUE

HasAttr(s, n) == n \in DOMAIN s
SetAttr(s, n, v) == [x \in (DOMAIN s) \cup {n} |-> IF x = n THEN v ELSE s[x]]

Range(s) == {s[i] : i \in DOMAIN s}

RECURSIVE SumLen(_)
SumLen(ss) == IF ss = <<>> THEN 0 ELSE Len(Head(ss)) + SumLen(Tail(ss))

-----------------------------------------------------------------------------
(* The ideal primitive cell (self._cell) and the reciprocal metric *)

\* self._cell: get_cell() gives the real-space lattice (row vectors),
\* get_number_of_atoms() the atom count.  The lattice is unimodular, so its
\* inverse is an integer matrix.
cell == [lattice |-> << <<1, 1, 0>>, <<0, 1, 0>>, <<0, 0, 1>> >>, natom |-> 1]

Det3(m) ==
    m[1][1] * (m[2][2] * m[3][3] - m[2][3] * m[3][2])
  - m[1][2] * (m[2][1] * m[3][3] - m[2][3] * m[3][1])
  + m[1][3] * (m[2][1] * m[3][2] - m[2][2] * m[3][1])

\* row and column indices other than i, in increasing order
Others(i) == IF i = 1 THEN <<2, 3>> ELSE IF i = 2 THEN <<1, 3>> ELSE <<1, 2>>

Cofactor(m, i, j) ==
    LET r == Others(i)
        c == Others(j)
        minor == m[r[1]][c[1]] * m[r[2]][c[2]] - m[r[1]][c[2]] * m[r[2]][c[1]]
    IN  IF (i + j) % 2 = 0 THEN minor ELSE 0 - minor

\* np.linalg.inv on a matrix of determinant 1 or -1: adj(m) / det(m).
Inv3(m) ==
    LET d == Det3(m)
    IN  [i \in 1..3 |-> [j \in 1..3 |-> Cofactor(m, j, i) * d]]

Transpose3(m) == [i \in 1..3 |-> [j \in 1..3 |-> m[j][i]]]

\* np.dot(v, m) for a row vector v
VecMat(v, m) == [j \in 1..3 |-> v[1] * m[1][j] + v[2] * m[2][j] + v[3] * m[3][j]]

VecSub(a, b) == [k \in 1..3 |-> a[k] - b[k]]

\* np.linalg.norm of a vector whose squared length is a perfect square
Norm(v) ==
    LET s == v[1] * v[1] + v[2] * v[2] + v[3] * v[3]
    IN  CHOOSE n \in 0..s : n * n = s

\* np.linalg.inv(self._cell.get_cell()).T
ReciprocalMetric == Transpose3(Inv3(cell.lattice))

\* the increment _shift_point adds for a step from lastq to qpoint
StepLength(qpoint, lastq) ==
    Norm(VecMat(VecSub(qpoint, lastq), ReciprocalMetric))

-----------------------------------------------------------------------------
(* Inputs *)

QPoints == { <<0, 0, 0>>, <<7, 4, 0>> }

PathsOfLen(n) == [1..n -> QPoints]

Cost(path) == IF Len(path) = 0 THEN 1 ELSE Len(path)

RECURSIVE PathSets(_)
PathSets(c) ==
    {<<>>} \cup
    UNION { { <<p>> \o rest : rest \in PathSets(c - Cost(p)) } :
            p \in { x \in UNION { PathsOfLen(n) : n \in 0..c } : Cost(x) <= c } }

\* The constructor's arguments: the path set, the three feature options and
\* what dynamical_matrix.is_nac() answers.
Arguments ==
    [ paths : PathSets(MaxPoints),
      is_eigenvectors : BOOLEAN,
      is_band_connection : BOOLEAN,
      group_velocity : BOOLEAN,
      is_nac : BOOLEAN ]

-----------------------------------------------------------------------------
(* Collaborators, at their interface *)

ISqrt(n) == CHOOSE r \in 0..n : r * r = n
Abs(x) == IF x < 0 THEN 0 - x ELSE x
Sign(x) == IF x < 0 THEN 0 - 1 ELSE IF x > 0 THEN 1 ELSE 0

\* eigenstates.calculate_frequencies: sign(l) * factor * sqrt(|l|) per band
calculate_frequencies(eigvals, f) ==
    [k \in 1..Len(eigvals) |-> Sign(eigvals[k]) * f * ISqrt(Abs(eigvals[k]))]

\* What the eigenstate collaborator answers at q: the four results of
\* extract_eigenstates(q) and the four side queries read after it.  Two bands;
\* rot_pr_weights has two columns of which num_irs are meaningful.
EigenstatesAt(q) ==
    LET g == q[1]
    IN  [ eigvals        |-> IF g = 0 THEN <<0, 9>> ELSE <<0 - 4, 16>>,
          eigvecs        |-> [d \in 1..3 |-> [k \in 1..2 |-> <<g + d, k>>]],
          pr_weights     |-> IF g = 0 THEN <<10, 0>> ELSE <<6, 4>>,
          rot_pr_weights |-> IF g = 0 THEN << <<7, 3>>, <<0, 0>> >>
                             ELSE << <<6, 99>>, <<4, 99>> >>,
          pg_symbol      |-> IF g = 0 THEN "m-3m" ELSE "mm2",
          narms          |-> IF g = 0 THEN 1 ELSE 12,
          num_irs        |-> IF g = 0 THEN 2 ELSE 1,
          ir_labels      |-> IF g = 0 THEN <<"T1u", "T2g">> ELSE <<"A1", "">> ]

\* group_velocity.get_group_velocity() after set_q_points(qs): one entry per
\* q-point, each with one 3-vector per band.
GroupVelocityOf(qs) ==
    [i \in 1..Len(qs) |-> [k \in 1..2 |-> <<qs[i][1], i, k>>]]

\* rot_pr_weights[:, :num_irs]
SliceColumns(m, n) == [k \in 1..Len(m) |-> SubSeq(m[k], 1, n)]

-----------------------------------------------------------------------------
(* numpy conversions *)

\* np.array of a list of equally shaped items: the items stacked, in order.
NpArray(xs) == [j \in 1..Len(xs) |-> xs[j]]

\* a str stored in an array of dtype 'S': the bytes of the string
EncodeS(s) == [S |-> s]

SameLen(xs) == \A a, b \in Range(xs) : Len(a) = Len(b)

\* np.array(x, dtype='S') of a list of lists of str succeeds when the inner
\* lists have one length (a non-empty list is no element of a string array:
\* "setting an array element with a sequence") ...
Rect2(x) == SameLen(x)
\* ... and of a list of lists of lists of str when both levels do.
Rect3(x) == SameLen(x) /\ \A a, b \in Range(x) : SameLen(a \o b)

NpArrayS2(x) == [p \in 1..Len(x) |-> [j \in 1..Len(x[p]) |-> EncodeS(x[p][j])]]
NpArrayS3(x) ==
    [p \in 1..Len(x) |-> [j \in 1..Len(x[p]) |->
        [l \in 1..Len(x[p][j]) |-> EncodeS(x[p][j][l])]]]

-----------------------------------------------------------------------------
(* State *)

VARIABLES
    args,       \* the constructor's arguments (never change)
    self,       \* the BandStructure's attributes: name -> value
    band,       \* locals of _set_band
    onpath,     \* locals of _solve_dm_on_path
    pt,         \* locals of one turn of the point loop
    files,      \* the two spectral stream files and their handles
    collab,     \* state held by the collaborators
    calls,      \* the collaborator calls made so far, in order
    out,        \* what write_yaml and write_hdf5 have produced
    pc,         \* where the program is
    exc         \* the exception that ended construction, or "none"

vars == <<args, self, band, onpath, pt, files, collab, calls, out, pc, exc>>

NoLocals == [i |-> 0]

\* RetainEigenvectors without lines 49-50
RetainEigenvectorsFlagOnly(is_eigenvectors, is_band_connection) == is_eigenvectors

\* lines 47-50
RetainEigenvectors(is_eigenvectors, is_band_connection) ==
    IF is_band_connection THEN TRUE ELSE is_eigenvectors

\* a file that does not exist yet
NoFile == [exists |-> FALSE, open |-> FALSE, opened |-> 0, lines |-> <<>>]

\* open(fn, "w"): the file is created or truncated, the handle is open
OpenW(f) == [exists |-> TRUE, open |-> TRUE, opened |-> f.opened + 1, lines |-> <<>>]

Close(f) == [f EXCEPT !.open = FALSE]

\* WithExit as a close() written after the call of line 80, which an
\* exception skips
WithExitOnSuccessOnly(fs, by_exception) ==
    IF by_exception THEN fs ELSE [atoms |-> Close(fs.atoms), irs |-> Close(fs.irs)]

\* leaving the with block of line 76, normally or by an exception: both
\* context managers close their file either way
WithExit(fs, by_exception) == [atoms |-> Close(fs.atoms), irs |-> Close(fs.irs)]

\* __init__ up to line 72
Init ==
    /\ args \in Arguments
    /\ self = ( "_factor" :> factor
             @@ "_is_eigenvectors" :>
                    RetainEigenvectors(args.is_eigenvectors, args.is_band_connection)
             @@ "_is_band_connection" :> args.is_band_connection
             @@ "_group_velocity" :>
                    (IF args.group_velocity THEN Some("GroupVelocity") ELSE None)
             @@ "_paths" :> [p \in 1..Len(args.paths) |-> NpArray(args.paths[p])]
             @@ "_distances" :> <<>>
             @@ "_distance" :> 0
             @@ "_special_point" :> <<0>>
             @@ "_eigenvalues" :> None
             @@ "_eigenvectors" :> None
             @@ "_frequencies" :> None )
    /\ band = NoLocals
    /\ onpath = NoLocals
    /\ pt = NoLocals
    /\ files = [atoms |-> NoFile, irs |-> NoFile]
    /\ collab = [q_points |-> None, density |-> None]
    /\ calls = <<>>
    /\ out = [yaml |-> None, hdf5 |-> None]
    /\ pc = "init"
    /\ exc = "none"

\* an exception leaves __init__ through the with block
Raise(name) ==
    /\ exc' = name
    /\ pc' = "raised"
    /\ files' = WithExit(files, TRUE)

-----------------------------------------------------------------------------
(* __init__, lines 74-80 *)

OpenFiles ==
    /\ pc = "init"
    /\ files' = [atoms |-> OpenW(files.atoms), irs |-> OpenW(files.irs)]
    /\ self' = SetAttr(SetAttr(self, "_file_sf_atoms", "atoms"), "_file_sf_irs", "irs")
    /\ pc' = "set_band"
    /\ UNCHANGED <<args, band, onpath, pt, collab, calls, out, exc>>

(* _set_band, lines 155-165 *)
SetBandBegin ==
    /\ pc = "set_band"
    /\ band' = [ frequencies |-> <<>>, eigvecs |-> <<>>, pr_weights |-> <<>>,
                 nums_arms |-> <<>>, group_velocities |-> <<>>, distances |-> <<>>,
                 rot_pr_weights |-> <<>>, nums_irreps |-> <<>>, ir_labels |-> <<>>,
                 pg_symbols |-> <<>>, i |-> 1 ]
    /\ pc' = "for_path"
    /\ UNCHANGED <<args, self, onpath, pt, files, collab, calls, out, exc>>

\* _set_initial_point that also starts the distance afresh for the path
SetInitialPointResets(s, qpoint) ==
    SetAttr(SetAttr(s, "_lastq", qpoint), "_distance", 0)

\* _set_initial_point, lines 145-146
SetInitialPoint(s, qpoint) == SetAttr(s, "_lastq", qpoint)

\* _shift_point, lines 148-152
ShiftPoint(s, qpoint) ==
    SetAttr(SetAttr(s, "_distance", s["_distance"] + StepLength(qpoint, s["_lastq"])),
            "_lastq", qpoint)

CurrentPath == self["_paths"][band.i]

(* lines 167-168 and 210-222: the next path is entered *)
PathBegin ==
    /\ pc = "for_path"
    /\ band.i <= Len(self["_paths"])
    /\ Len(CurrentPath) > 0
    /\ self' = SetInitialPoint(self, CurrentPath[1])
    /\ onpath' = [ distances_on_path |-> <<>>, frequencies_on_path |-> <<>>,
                   eigvecs_on_path |-> <<>>, pr_weights_on_path |-> <<>>,
                   nqstar_on_path |-> <<>>, gv_on_path |-> <<>>,
                   rot_pr_weights_on_path |-> <<>>, pg_symbol_on_path |-> <<>>,
                   num_irs_on_path |-> <<>>, ir_labels_on_path |-> <<>>,
                   gv |-> None, i |-> 1 ]
    /\ pc' = IF self["_group_velocity"] # None THEN "group_velocity" ELSE "for_point"
    /\ UNCHANGED <<args, band, pt, files, collab, calls, out, exc>>

(* line 168 on a path without points: path[0] is an IndexError *)
PathEmpty ==
    /\ pc = "for_path"
    /\ band.i <= Len(self["_paths"])
    /\ Len(CurrentPath) = 0
    /\ Raise("IndexError")
    /\ UNCHANGED <<args, self, band, onpath, pt, collab, calls, out>>

(* lines 225-227 *)
GroupVelocityBatch ==
    /\ pc = "group_velocity"
    /\ collab' = [collab EXCEPT !.q_points = Some(CurrentPath)]
    /\ onpath' = [onpath EXCEPT !.gv = Some(GroupVelocityOf(CurrentPath))]
    /\ calls' = calls \o << <<"set_q_points", band.i>>, <<"get_group_velocity", band.i>> >>
    /\ pc' = "for_point"
    /\ UNCHANGED <<args, self, band, pt, files, out, exc>>

(* lines 229-231 *)
PointBegin ==
    /\ pc = "for_point"
    /\ onpath.i <= Len(CurrentPath)
    /\ self' = ShiftPoint(self, CurrentPath[onpath.i])
    /\ onpath' = [onpath EXCEPT
                    !.distances_on_path = Append(@, self'["_distance"])]
    /\ pc' = "solve"
    /\ UNCHANGED <<args, band, pt, files, collab, calls, out, exc>>

(* lines 233-235 *)
NacFault ==
    /\ pc = "solve"
    /\ args.is_nac
    /\ Raise("ValueError")
    /\ UNCHANGED <<args, self, band, onpath, pt, collab, calls, out>>

(* lines 237-249 *)
ExtractEigenstates ==
    /\ pc = "solve"
    /\ ~args.is_nac
    /\ LET q == CurrentPath[onpath.i]
           e == EigenstatesAt(q)
       IN  /\ pt' = [ eigvecs |-> e.eigvecs, pr_weights |-> e.pr_weights,
                      rot_pr_weights |-> e.rot_pr_weights,
                      frequencies |-> calculate_frequencies(e.eigvals, self["_factor"]),
                      narms |-> e.narms, num_irs |-> e.num_irs, i |-> onpath.i ]
           /\ onpath' = [onpath EXCEPT
                           !.pg_symbol_on_path = Append(@, e.pg_symbol),
                           !.nqstar_on_path = Append(@, e.narms),
                           !.num_irs_on_path = Append(@, e.num_irs),
                           !.ir_labels_on_path = Append(@, e.ir_labels)]
           /\ calls' = Append(calls, <<"extract_eigenstates", q>>)
    /\ pc' = "density_atoms"
    /\ UNCHANGED <<args, self, band, files, collab, out, exc>>

\* density_extractor.calculate_density(...): the extractor holds the density
\* of its arguments until the next call
CalculateDensity(c, distance, narms, frequencies, weights_data, eigenvectors_data) ==
    [c EXCEPT !.density =
        Some([ distance |-> distance, narms |-> narms, frequencies |-> frequencies,
               weights_data |-> weights_data,
               eigenvectors_data |-> eigenvectors_data ])]

\* density_extractor.print_partial_density(f): one line, the density held,
\* is appended through the handle f
PrintPartialDensity(fs, handle, c) ==
    [fs EXCEPT ![handle].lines = Append(@, Get(c.density))]

\* IrsHandle as a copy of line 258
IrsHandleAtoms(s) == s["_file_sf_atoms"]

\* the handles the two prints are given, lines 258 and 263
AtomsHandle(s) == s["_file_sf_atoms"]
IrsHandle(s) == s["_file_sf_irs"]

(* lines 254-258 *)
DensityAtoms ==
    /\ pc = "density_atoms"
    /\ files[AtomsHandle(self)].open
    /\ collab' = CalculateDensity(collab, self["_distance"], pt.narms, pt.frequencies,
                                  pt.pr_weights, Some(pt.eigvecs))
    /\ files' = PrintPartialDensity(files, AtomsHandle(self), collab')
    /\ calls' = calls \o << <<"calculate_density", "atoms">>,
                            <<"print_partial_density", AtomsHandle(self)>> >>
    /\ pc' = "density_irs"
    /\ UNCHANGED <<args, self, band, onpath, pt, out, exc>>

(* lines 260-263 *)
DensityIrs ==
    /\ pc = "density_irs"
    /\ files[IrsHandle(self)].open
    /\ collab' = CalculateDensity(collab, self["_distance"], pt.narms, pt.frequencies,
                                  SliceColumns(pt.rot_pr_weights, pt.num_irs), None)
    /\ files' = PrintPartialDensity(files, IrsHandle(self), collab')
    /\ calls' = calls \o << <<"calculate_density", "irs">>,
                            <<"print_partial_density", IrsHandle(self)>> >>
    /\ pc' = "append"
    /\ UNCHANGED <<args, self, band, onpath, pt, out, exc>>

\* AppendPointLocals with the frequencies inserted at the front
AppendPointLocalsPrepend(o, t, s) ==
    [o EXCEPT
         !.frequencies_on_path = <<t.frequencies>> \o @,
         !.pr_weights_on_path = Append(@, t.pr_weights),
         !.rot_pr_weights_on_path = Append(@, t.rot_pr_weights),
         !.eigvecs_on_path = IF s["_is_eigenvectors"] THEN Append(@, t.eigvecs) ELSE @,
         !.gv_on_path = IF s["_group_velocity"] # None
                        THEN Append(@, Get(o.gv)[o.i]) ELSE @,
         !.i = @ + 1]

\* lines 265-272: the point's results join the path's lists
AppendPointLocals(o, t, s) ==
    [o EXCEPT
         !.frequencies_on_path = Append(@, t.frequencies),
         !.pr_weights_on_path = Append(@, t.pr_weights),
         !.rot_pr_weights_on_path = Append(@, t.rot_pr_weights),
         !.eigvecs_on_path = IF s["_is_eigenvectors"] THEN Append(@, t.eigvecs) ELSE @,
         !.gv_on_path = IF s["_group_velocity"] # None
                        THEN Append(@, Get(o.gv)[o.i]) ELSE @,
         !.i = @ + 1]

(* lines 265-272 *)
AppendPoint ==
    /\ pc = "append"
    /\ onpath' = AppendPointLocals(onpath, pt, self)
    /\ pt' = NoLocals
    /\ pc' = "for_point"
    /\ UNCHANGED <<args, self, band, files, collab, calls, out, exc>>

\* AppendSpecialPoint recording the path's own length
AppendSpecialPointPathLength(s) ==
    SetAttr(s, "_special_point",
            Append(s["_special_point"],
                   s["_distance"] - s["_special_point"][Len(s["_special_point"])]))

\* line 193
AppendSpecialPoint(s) ==
    SetAttr(s, "_special_point", Append(s["_special_point"], s["_distance"]))

\* get_pg_symbol_on_path giving the last point's symbol alone
get_pg_symbol_of_last_point(s) ==
    << s["_pg_symbol_on_path"][Len(s["_pg_symbol_on_path"])] >>

\* get_pg_symbol_on_path, lines 289-290
get_pg_symbol_on_path(s) == s["_pg_symbol_on_path"]

(* the path's points are done: lines 274-287, then 180-193 *)
PathEnd ==
    /\ pc = "for_point"
    /\ onpath.i > Len(CurrentPath)
    /\ LET s1 == SetAttr(self, "_pg_symbol_on_path", onpath.pg_symbol_on_path)
       IN  /\ band' = [band EXCEPT
                 !.frequencies = Append(@, NpArray(onpath.frequencies_on_path)),
                 !.pr_weights = Append(@, NpArray(onpath.pr_weights_on_path)),
                 !.rot_pr_weights = Append(@, onpath.rot_pr_weights_on_path),
                 !.nums_arms = Append(@, NpArray(onpath.nqstar_on_path)),
                 !.nums_irreps = Append(@, NpArray(onpath.num_irs_on_path)),
                 !.ir_labels = Append(@, onpath.ir_labels_on_path),
                 !.pg_symbols = Append(@, get_pg_symbol_on_path(s1)),
                 !.eigvecs = IF self["_is_eigenvectors"]
                             THEN Append(@, NpArray(onpath.eigvecs_on_path)) ELSE @,
                 !.group_velocities = IF self["_group_velocity"] # None
                                      THEN Append(@, NpArray(onpath.gv_on_path)) ELSE @,
                 !.distances = Append(@, NpArray(onpath.distances_on_path)),
                 !.i = @ + 1]
           /\ self' = AppendSpecialPoint(s1)
    /\ onpath' = NoLocals
    /\ pc' = "for_path"
    /\ UNCHANGED <<args, pt, files, collab, calls, out, exc>>

\* lines 195-207: the attributes _set_band assigns once the paths are done
SetBandResult(s, b) ==
    LET base == ( "_frequencies" :> Some(b.frequencies)
               @@ "_pr_weights" :> b.pr_weights
               @@ "_nums_arms" :> b.nums_arms
               @@ "_nums_irreps" :> b.nums_irreps
               @@ "_rot_pr_weights" :> b.rot_pr_weights
               @@ "_ir_labels" :> NpArrayS3(b.ir_labels)
               @@ "_pg_symbols" :> NpArrayS2(b.pg_symbols)
               @@ "_distances" :> b.distances )
        eig == IF s["_is_eigenvectors"]
               THEN "_eigenvectors" :> Some(b.eigvecs) ELSE <<>>
        gvs == IF s["_group_velocity"] # None
               THEN "_group_velocities" :> b.group_velocities ELSE <<>>
    IN  (base @@ eig @@ gvs) @@ s

(* all paths are done: lines 195-207, and the with block is left *)
SetBandEnd ==
    /\ pc = "for_path"
    /\ band.i > Len(self["_paths"])
    /\ Rect3(band.ir_labels)
    /\ Rect2(band.pg_symbols)
    /\ self' = SetBandResult(self, band)
    /\ files' = WithExit(files, FALSE)
    /\ band' = NoLocals
    /\ pc' = "done"
    /\ UNCHANGED <<args, onpath, pt, collab, calls, out, exc>>

(* lines 200-201 on label or symbol lists of unequal lengths: ValueError *)
SetBandEndRagged ==
    /\ pc = "for_path"
    /\ band.i > Len(self["_paths"])
    /\ ~(Rect3(band.ir_labels) /\ Rect2(band.pg_symbols))
    /\ Raise("ValueError")
    /\ UNCHANGED <<args, self, band, onpath, pt, collab, calls, out>>

(* a collaborator call (lines 226-227, 238-249, 254-263) raises *)
CollaboratorRaises ==
    /\ \/ pc \in {"group_velocity", "density_atoms", "density_irs"}
       \/ pc = "solve" /\ ~args.is_nac
    /\ Raise("CollaboratorError")
    /\ UNCHANGED <<args, self, band, onpath, pt, collab, calls, out>>

-----------------------------------------------------------------------------
(* write_hdf5, lines 82-97 *)

\* w.create_dataset(name, data=self.<attr>): the entry, the attribute it was
\* given and that attribute's value
Dataset(s, name, attr) == [name |-> name, attr |-> attr, data |-> s[attr]]

\* lines 85-92
Hdf5Always(s) ==
    << Dataset(s, "paths", "_paths"),
       Dataset(s, "distances", "_distances"),
       Dataset(s, "nums_arms", "_nums_arms"),
       Dataset(s, "pg_symbols", "_pg_symbols"),
       Dataset(s, "nums_irreps", "_nums_irreps"),
       Dataset(s, "ir_labels", "_ir_labels"),
       Dataset(s, "frequencies", "_frequencies"),
       Dataset(s, "pr_weights", "_pr_weights") >>

\* lines 94-95
Hdf5GroupVelocities(s) ==
    IF s["_group_velocity"] # None
    THEN << Dataset(s, "group_velocities", "_group_velocity") >>
    ELSE <<>>

\* lines 96-97
Hdf5Eigenvectors(s) ==
    IF s["_eigenvectors"] # None
    THEN << Dataset(s, "eigenvectors_data", "_eigenvectors") >>
    ELSE <<>>

(* every create_dataset call is accepted *)
WriteHdf5 ==
    /\ pc = "done"
    /\ out.hdf5 = None
    /\ out' = [out EXCEPT !.hdf5 =
                 Some([ status |-> "done",
                        entries |-> Hdf5Always(self) \o Hdf5GroupVelocities(self)
                                      \o Hdf5Eigenvectors(self) ])]
    /\ UNCHANGED <<args, self, band, onpath, pt, files, collab, calls, pc, exc>>

(* h5py refuses the data of line 95, which is no array: TypeError *)
WriteHdf5Refused ==
    /\ pc = "done"
    /\ out.hdf5 = None
    /\ self["_group_velocity"] # None
    /\ out' = [out EXCEPT !.hdf5 =
                 Some([status |-> "raised", entries |-> Hdf5Always(self)])]
    /\ UNCHANGED <<args, self, band, onpath, pt, files, collab, calls, pc, exc>>

-----------------------------------------------------------------------------
(* write_yaml, lines 99-143 *)

RECURSIVE ConcatTo(_, _)
ConcatTo(f, n) == IF n = 0 THEN <<>> ELSE ConcatTo(f, n - 1) \o f[n]

Min(S) == CHOOSE x \in S : \A y \in S : x <= y

\* lines 101-113
YamlPreamble(s) ==
    LET lattice == Inv3(cell.lattice)
        rows == Transpose3(lattice)
    IN  << [kind |-> "nqpoint", val |-> SumLen(s["_paths"])],
           [kind |-> "npath", val |-> Len(s["_paths"])],
           [kind |-> "natom", val |-> cell.natom],
           [kind |-> "reciprocal_lattice"],
           [kind |-> "vector", val |-> rows[1], axis |-> "a*"],
           [kind |-> "vector", val |-> rows[2], axis |-> "b*"],
           [kind |-> "vector", val |-> rows[3], axis |-> "c*"],
           [kind |-> "phonon"] >>

\* lines 124-141: the entry of band k at point j of path i
YamlBand(s, i, j, k) ==
    [ index |-> k,
      frequency |-> Get(s["_frequencies"])[i][j][k],
      weight |-> s["_weights"][i][j][k],
      group_velocity |->
          IF s["_group_velocity"] # None
          THEN Some(s["_group_velocities"][i][j][k]) ELSE None,
      eigenvector |->
          IF s["_is_eigenvectors"]
          THEN Some([l \in 1..cell.natom |-> [m \in 1..3 |->
                       Get(s["_eigenvectors"])[i][j][(l - 1) * 3 + m][k]]])
          ELSE None ]

\* lines 120-143: the block of point j of path i and the blank line after it
YamlBlock(s, i, j) ==
    << [ kind |-> "q-position", q |-> s["_paths"][i][j],
         distance |-> s["_distances"][i][j],
         band |-> [k \in 1..Len(Get(s["_frequencies"])[i][j]) |-> YamlBand(s, i, j, k)] ],
       [ kind |-> "blank" ] >>

\* lines 114-119: zip stops at the shortest of its four arguments
YamlBody(s) ==
    LET n == Min({ Len(s["_paths"]), Len(s["_distances"]),
                   Len(Get(s["_frequencies"])), Len(s["_weights"]) })
    IN  ConcatTo([i \in 1..n |->
                    ConcatTo([j \in 1..Len(s["_paths"][i]) |-> YamlBlock(s, i, j)],
                             Len(s["_paths"][i]))],
                 n)

(* write_yaml: the preamble is written, then line 118 reads self._weights *)
WriteYaml ==
    /\ pc = "done"
    /\ out.yaml = None
    /\ out' = [out EXCEPT !.yaml =
                 IF HasAttr(self, "_weights")
                 THEN Some([status |-> "done", doc |-> YamlPreamble(self) \o YamlBody(self)])
                 ELSE Some([status |-> "AttributeError", doc |-> YamlPreamble(self)])]
    /\ UNCHANGED <<args, self, band, onpath, pt, files, collab, calls, pc, exc>>

-----------------------------------------------------------------------------

Next ==
    \/ OpenFiles
    \/ SetBandBegin
    \/ PathBegin
    \/ PathEmpty
    \/ GroupVelocityBatch
    \/ PointBegin
    \/ NacFault
    \/ ExtractEigenstates
    \/ DensityAtoms
    \/ DensityIrs
    \/ AppendPoint
    \/ PathEnd
    \/ SetBandEnd
    \/ SetBandEndRagged
    \/ CollaboratorRaises
    \/ WriteHdf5
    \/ WriteHdf5Refused
    \/ WriteYaml

Spec == Init /\ [][Next]_vars

-----------------------------------------------------------------------------
(* Vocabulary of the properties *)

Paths == self["_paths"]
NumPaths == Len(Paths)
Built == pc = "done"

RECURSIVE Flatten(_)
Flatten(ss) == IF ss = <<>> THEN <<>> ELSE Head(ss) \o Flatten(Tail(ss))

\* the q-points in path-then-point order, and the place of point j of path p
AllPoints == Flatten(Paths)
Offset(p) == SumLen(SubSeq(Paths, 1, p - 1))
FirstOfPath(k) == \E p \in 1..NumPaths : Len(Paths[p]) > 0 /\ k = Offset(p) + 1

\* what the collaborators produce at q
FrequenciesAt(q) == calculate_frequencies(EigenstatesAt(q).eigvals, factor)
LabelsAt(q) ==
    [l \in 1..Len(EigenstatesAt(q).ir_labels) |-> EncodeS(EigenstatesAt(q).ir_labels[l])]

\* the cumulative distances recorded so far, in path-then-point order
RecordedDistances ==
    IF Built THEN Flatten(self["_distances"])
    ELSE IF "distances" \in DOMAIN band
         THEN Flatten(band.distances) \o
              (IF "distances_on_path" \in DOMAIN onpath
               THEN onpath.distances_on_path ELSE <<>>)
         ELSE <<>>

IsGvCall(c) == c[1] \in {"set_q_points", "get_group_velocity"}
IsPointCall(c) == ~IsGvCall(c)
PointCalls == SelectSeq(calls, IsPointCall)
GvCalls == SelectSeq(calls, IsGvCall)

\* the five collaborator calls of one point, in the order of lines 237-263
CallsOfPoint(q) ==
    << <<"extract_eigenstates", q>>,
       <<"calculate_density", "atoms">>, <<"print_partial_density", "atoms">>,
       <<"calculate_density", "irs">>, <<"print_partial_density", "irs">> >>

CallsOfPath(p) ==
    (IF args.group_velocity
     THEN << <<"set_q_points", p>>, <<"get_group_velocity", p>> >> ELSE <<>>)
    \o Flatten([j \in 1..Len(Paths[p]) |-> CallsOfPoint(Paths[p][j])])

\* the line each stream gets for the k-th point
AtomsLine(k, d) ==
    [ distance |-> d, narms |-> EigenstatesAt(AllPoints[k]).narms,
      frequencies |-> FrequenciesAt(AllPoints[k]),
      weights_data |-> EigenstatesAt(AllPoints[k]).pr_weights,
      eigenvectors_data |-> Some(EigenstatesAt(AllPoints[k]).eigvecs) ]
IrsLine(k, d) ==
    [ distance |-> d, narms |-> EigenstatesAt(AllPoints[k]).narms,
      frequencies |-> FrequenciesAt(AllPoints[k]),
      weights_data |-> SliceColumns(EigenstatesAt(AllPoints[k]).rot_pr_weights,
                                    EigenstatesAt(AllPoints[k]).num_irs),
      eigenvectors_data |-> None ]

-----------------------------------------------------------------------------
(* C1: with NAC enabled, construction fails before any point is solved (no
   collaborator call has happened, the cumulative distance is still 0) and
   before either spectral file has been created or truncated. *)
C1_NacFailsBeforeAnyEffect ==
    (args.is_nac /\ pc = "raised" /\ exc = "ValueError") =>
        /\ calls = <<>>
        /\ self["_distance"] = 0
        /\ files.atoms.opened = 0 /\ ~files.atoms.exists
        /\ files.irs.opened = 0 /\ ~files.irs.exists

(* C2: after a successful construction over n paths the special-point
   sequence has n+1 entries, starts with 0, is non-decreasing, and entry k+1
   is the distance recorded for the last point of path k. *)
C2_SpecialPoints ==
    Built =>
        LET sp == self["_special_point"]
        IN  /\ Len(sp) = NumPaths + 1
            /\ sp[1] = 0
            /\ \A k \in 1..NumPaths :
                 /\ sp[k] <= sp[k + 1]
                 /\ sp[k + 1] = self["_distances"][k][Len(self["_distances"][k])]

C2_Witness ==
    /\ Built
    /\ NumPaths = 2
    /\ self["_special_point"][2] > 0
    /\ self["_special_point"][3] > self["_special_point"][2]

(* C3: after a successful construction each of the seven per-path containers
   holds, for every path p, exactly len(paths[p]) entries, and entry j is the
   value produced when point j of path p was solved. *)
C3_ContainersAligned ==
    Built =>
        /\ \A name \in {"_distances", "_pr_weights", "_rot_pr_weights",
                        "_nums_arms", "_nums_irreps", "_ir_labels"} :
             /\ Len(self[name]) = NumPaths
             /\ \A p \in 1..NumPaths : Len(self[name][p]) = Len(Paths[p])
        /\ Len(Get(self["_frequencies"])) = NumPaths
        /\ \A p \in 1..NumPaths :
             /\ Len(Get(self["_frequencies"])[p]) = Len(Paths[p])
             /\ \A j \in 1..Len(Paths[p]) :
                  LET q == Paths[p][j]
                      e == EigenstatesAt(q)
                  IN  /\ self["_distances"][p][j] = files.atoms.lines[Offset(p) + j].distance
                      /\ self["_distances"][p][j] = files.irs.lines[Offset(p) + j].distance
                      /\ Get(self["_frequencies"])[p][j] = FrequenciesAt(q)
                      /\ self["_pr_weights"][p][j] = e.pr_weights
                      /\ self["_rot_pr_weights"][p][j] = e.rot_pr_weights
                      /\ self["_nums_arms"][p][j] = e.narms
                      /\ self["_nums_irreps"][p][j] = e.num_irs
                      /\ self["_ir_labels"][p][j] = LabelsAt(q)

C3_Witness ==
    /\ Built
    /\ NumPaths = 2
    /\ \A p \in 1..2 : Len(Paths[p]) = 2 /\ Paths[p][1] # Paths[p][2]
    /\ Paths[1] # Paths[2]

(* C4: the cumulative distance starts at 0 and is never reset at a path
   boundary: the distances recorded in path-then-point order are
   non-decreasing, the first point of every path has the distance of the
   point before it (0 for the first path), and every other point adds the
   reciprocal-metric norm of its step from the previous point. *)
C4_DistanceIsCumulative ==
    LET ds == RecordedDistances
    IN  /\ Len(ds) <= Len(AllPoints)
        /\ self["_distance"] = (IF ds = <<>> THEN 0 ELSE ds[Len(ds)])
        /\ \A k \in 1..Len(ds) :
             LET before == IF k = 1 THEN 0 ELSE ds[k - 1]
             IN  /\ before <= ds[k]
                 /\ ds[k] = before + (IF FirstOfPath(k) THEN 0
                                      ELSE StepLength(AllPoints[k], AllPoints[k - 1]))

C4_Witness ==
    /\ Built
    /\ NumPaths = 2
    /\ Len(Paths[1]) = 2 /\ Len(Paths[2]) = 2
    /\ Paths[1][2] # Paths[2][1]
    /\ self["_distances"][1][2] > 0
    /\ self["_distances"][2][1] = self["_distances"][1][2]
    /\ self["_distances"][2][2] > self["_distances"][2][1]

(* C5: after a successful construction write_yaml completes and emits, after
   the preamble, one q-point block per point in path-then-point order, each
   with one entry per band (1-based index, frequency, weight), a group
   velocity iff a collaborator is configured, an eigenvector block iff
   eigenvectors are retained, and a blank line after it. *)
C5_YamlDocument ==
    out.yaml # None =>
        LET y == Get(out.yaml)
            n == Len(YamlPreamble(self))
            body == SubSeq(y.doc, n + 1, Len(y.doc))
        IN  /\ y.status = "done"
            /\ Len(body) = 2 * Len(AllPoints)
            /\ \A k \in 1..Len(AllPoints) :
                 /\ body[2 * k - 1].kind = "q-position"
                 /\ body[2 * k - 1].q = AllPoints[k]
                 /\ Len(body[2 * k - 1].band) = Len(FrequenciesAt(AllPoints[k]))
                 /\ \A b \in 1..Len(body[2 * k - 1].band) :
                      LET entry == body[2 * k - 1].band[b]
                      IN  /\ entry.index = b
                          /\ entry.frequency = FrequenciesAt(AllPoints[k])[b]
                          /\ entry.weight = EigenstatesAt(AllPoints[k]).pr_weights[b]
                          /\ (entry.group_velocity # None) <=> args.group_velocity
                          /\ (entry.eigenvector # None) <=> self["_is_eigenvectors"]
                 /\ body[2 * k].kind = "blank"

(* C6: write_hdf5 writes 'eigenvectors_data' iff eigenvectors are retained
   and 'group_velocities' iff a group-velocity collaborator is configured,
   and each of them holds the aggregated per-path container of the
   construction, shaped like 'frequencies' along paths and points. *)
C6_Hdf5Entries ==
    out.hdf5 # None =>
        LET es == Get(out.hdf5).entries
            Named(name) == { i \in 1..Len(es) : es[i].name = name }
            LikeFrequencies(x) ==
                /\ Len(x) = NumPaths
                /\ \A p \in 1..NumPaths : Len(x[p]) = Len(Get(self["_frequencies"])[p])
        IN  /\ (Named("eigenvectors_data") # {}) <=> self["_is_eigenvectors"]
            /\ (Named("group_velocities") # {}) <=> args.group_velocity
            /\ \A i \in Named("eigenvectors_data") :
                 /\ es[i].attr = "_eigenvectors"
                 /\ LikeFrequencies(Get(es[i].data))
            /\ \A i \in Named("group_velocities") :
                 /\ es[i].attr = "_group_velocities"
                 /\ LikeFrequencies(es[i].data)

(* C7, as claimed: for every path exactly one point-group symbol is retained,
   the one reported at the path's last point. *)
C7_OnlyLastSymbol ==
    Built =>
        /\ Len(self["_pg_symbols"]) = NumPaths
        /\ \A p \in 1..NumPaths :
             /\ Len(self["_pg_symbols"][p]) = 1
             /\ self["_pg_symbols"][p][1] =
                    EncodeS(EigenstatesAt(Paths[p][Len(Paths[p])]).pg_symbol)

(* C7, amended: for every path one point-group symbol per point is retained,
   in point order: entry j is the symbol reported at point j of the path, so
   the per-path container has len(path) strings. *)
C7_SymbolPerPoint ==
    Built =>
        /\ Len(self["_pg_symbols"]) = NumPaths
        /\ \A p \in 1..NumPaths :
             /\ Len(self["_pg_symbols"][p]) = Len(Paths[p])
             /\ \A j \in 1..Len(Paths[p]) :
                  self["_pg_symbols"][p][j] = EncodeS(EigenstatesAt(Paths[p][j]).pg_symbol)

C7_Witness ==
    /\ Built
    /\ NumPaths = 2
    /\ Len(Paths[1]) = 2
    /\ self["_pg_symbols"][1][1] # self["_pg_symbols"][1][2]

(* C8: each stream is opened once and gets one print per q-point in
   path-then-point order; the calls of a point are extract_eigenstates,
   calculate_density (atoms), print (atoms stream), calculate_density
   (irreps), print (irreps stream), all made before the next point's distance
   is advanced; both calculate calls get the point's cumulative distance, arm
   count and frequencies. *)
C8_StreamsInPointOrder ==
    LET ds == RecordedDistances
        cs == PointCalls
        expected == Flatten([k \in 1..Len(ds) |-> CallsOfPoint(AllPoints[k])])
        Prints(h) == { n \in 1..Len(cs) : cs[n] = <<"print_partial_density", h>> }
    IN  /\ files.atoms.opened <= 1 /\ files.irs.opened <= 1
        /\ Len(cs) <= Len(expected)
        /\ cs = SubSeq(expected, 1, Len(cs))
        /\ Len(ds) > 0 => Len(cs) >= Len(expected) - 5
        /\ pc \in {"for_point", "for_path", "done"} => Len(cs) = Len(expected)
        /\ Len(files.atoms.lines) = Cardinality(Prints("atoms"))
        /\ Len(files.irs.lines) = Cardinality(Prints("irs"))
        /\ \A k \in 1..Len(files.atoms.lines) : files.atoms.lines[k] = AtomsLine(k, ds[k])
        /\ \A k \in 1..Len(files.irs.lines) : files.irs.lines[k] = IrsLine(k, ds[k])

C8_Witness ==
    /\ Built
    /\ NumPaths = 2
    /\ Len(files.atoms.lines) = 4
    /\ Len(files.irs.lines) = 4
    /\ files.atoms.lines[2] # files.atoms.lines[3]

(* C9: both stream handles are acquired exactly once, before the first path
   is traversed, are open throughout the traversal, and are closed when
   construction ends, whether it returns or raises; nothing is written to a
   stream once its handle is closed. *)
C9_HandlesScoped ==
    /\ [](/\ pc = "init" =>
               /\ files.atoms.opened = 0 /\ files.irs.opened = 0
               /\ calls = <<>> /\ ~HasAttr(self, "_lastq")
          /\ pc # "init" => files.atoms.opened = 1 /\ files.irs.opened = 1
          /\ pc \in {"done", "raised"} => ~files.atoms.open /\ ~files.irs.open
          /\ pc \notin {"init", "done", "raised"} => files.atoms.open /\ files.irs.open)
    /\ [][\A h \in {"atoms", "irs"} :
            (files[h].opened > 0 /\ ~files[h].open) => files'[h] = files[h]]_vars

C9_Witness ==
    /\ pc = "raised"
    /\ exc = "CollaboratorError"
    /\ Len(files.atoms.lines) > Len(files.irs.lines)
    /\ Len(files.irs.lines) > 0
    /\ ~files.atoms.open /\ ~files.irs.open

(* C10: after a successful construction the eigenvector container has one
   entry per path, each with one entry per point, iff is_eigenvectors or
   is_band_connection was set, and is None otherwise; the group-velocity
   container exists iff a collaborator was supplied and then holds, per path
   and point, the entry at the point's position of the batch obtained by one
   call per path made before any point of that path is solved. *)
C10_OptionalContainers ==
    Built =>
        /\ (self["_eigenvectors"] # None) <=>
               (args.is_eigenvectors \/ args.is_band_connection)
        /\ self["_eigenvectors"] # None =>
             LET ev == Get(self["_eigenvectors"])
             IN  /\ Len(ev) = NumPaths
                 /\ \A p \in 1..NumPaths :
                      /\ Len(ev[p]) = Len(Paths[p])
                      /\ \A j \in 1..Len(Paths[p]) :
                           ev[p][j] = EigenstatesAt(Paths[p][j]).eigvecs
        /\ HasAttr(self, "_group_velocities") <=> args.group_velocity
        /\ HasAttr(self, "_group_velocities") =>
             LET gvs == self["_group_velocities"]
             IN  /\ Len(gvs) = NumPaths
                 /\ \A p \in 1..NumPaths :
                      /\ Len(gvs[p]) = Len(Paths[p])
                      /\ \A j \in 1..Len(Paths[p]) :
                           gvs[p][j] = GroupVelocityOf(Paths[p])[j]
        /\ calls = Flatten([p \in 1..NumPaths |-> CallsOfPath(p)])

C10_Witness ==
    /\ Built
    /\ args.is_band_connection /\ ~args.is_eigenvectors
    /\ args.group_velocity
    /\ NumPaths = 2
    /\ Len(Paths[1]) = 2
    /\ self["_eigenvectors"] # None
    /\ Len(GvCalls) = 4

====
